---- MODULE Spec2Model ----
(***************************************************************************)
(* Embeddings front-end of from-scratch-foundations:                       *)
(*   SinusoidalPositionalEncoding / LearnedPositionalEmbedding             *)
(*     (projects/transformer/positional_encoding.py)                       *)
(*   TokenAndPositionalEmbedding                                           *)
(*     (src/foundations/projects/transformer/embeddings.py)                *)
(*                                                                         *)
(* A tensor is a record [dtype, shape, data]; data is a nested sequence    *)
(* (1-based) of scalars.  A scalar is a formal sum [k, t]: an integer part *)
(* k plus a bag t of symbolic trigonometric terms, so that x + table[p]    *)
(* is computed, not assumed, and rows of different positions differ.       *)
(***************************************************************************)
EXTENDS Integers, Sequences, FiniteSets, Bags, TLC

(***************************************************************************)
(* Bounds of the model.                                                    *)
(***************************************************************************)
MaxLen == 2        \* largest max_len a module is constructed with
MaxDModel == 4     \* largest d_model (odd and even values occur)
MaxBatch == 2      \* largest batch size of an input
MaxVocab == 3      \* largest vocab_size of a block
MaxSeed == 2       \* largest seed passed to the seeding utilities
MaxDraws == 2      \* most draws from one generator between two seedings
RngStates == 8     \* number of states of an abstract generator

(***************************************************************************)
(* The state of the program.                                               *)
(***************************************************************************)
VARIABLES
    module,       \* the nn.Module under construction/use, or NoModule
    call,         \* the last operation invoked and its arguments
    result,       \* what that operation returned or raised
    constructed,  \* history: the module as its constructor returned it
    failed,       \* history: a forward of the block has raised SequenceTooLong
    last,         \* history: an earlier call, its outcome and the mode it ran in
    proc,         \* the process-global state: generators, os.environ, torch flags
    platform,     \* what is installed (fixed for the life of the process)
    drawn,        \* history: the last valid seed and the values drawn since
    asked         \* history: cudnn.benchmark at process start, and whether a
                  \* completed seeding call has asked for deterministic mode

(***************************************************************************)
(* Scalars.                                                                *)
(***************************************************************************)
Num(n) == [k |-> n, t |-> EmptyBag]

Sym(term) == [k |-> 0, t |-> SetToBag({term})]

Add(a, b) == [k |-> a.k + b.k, t |-> a.t (+) b.t]

Scale(n, a) == [k |-> n * a.k, t |-> [e \in DOMAIN a.t |-> n * a.t[e]]]

RECURSIVE GCD(_, _)
GCD(a, b) == IF b = 0 THEN a ELSE GCD(b, a % b)

\* The angle pos / 10000^(2i/d_model), kept exactly: the position and the
\* exponent 2i/d_model as a reduced fraction.
Angle(pos, i, d_model) ==
    LET g == GCD(2 * i, d_model)
    IN  [pos |-> pos, num |-> (2 * i) \div g, den |-> d_model \div g]

\* torch.sin / torch.cos of one angle: exact at angle 0, symbolic elsewhere.
Sin(a) == IF a.pos = 0 THEN Num(0) ELSE Sym(<<"sin", a.pos, a.num, a.den>>)

Cos(a) == IF a.pos = 0 THEN Num(1) ELSE Sym(<<"cos", a.pos, a.num, a.den>>)

(***************************************************************************)
(* Tensors and the outcome of a call.                                      *)
(***************************************************************************)
NoTensor == [dtype |-> "none", shape |-> <<>>, data |-> <<>>]

Tensor(dtype, shape, data) == [dtype |-> dtype, shape |-> shape, data |-> data]

NoMsg == [fmt |-> "", args |-> <<>>]

\* The outcome of a call: the value returned or the exception raised, the
\* sub-operations that ran, and the rows read from a learned position table.
Ok(out, steps) ==
    [exc |-> "none", msg |-> NoMsg, out |-> out, steps |-> steps, reads |-> {}]

Raise(exc, fmt, args, steps) ==
    [exc |-> exc, msg |-> [fmt |-> fmt, args |-> args], out |-> NoTensor,
     steps |-> steps, reads |-> {}]

\* torch.arange(n): 0, 1, ..., n-1
arange(n) == [j \in 1..n |-> j - 1]

\* torch.zeros(rows, cols)
zeros2(rows, cols) == [r \in 1..rows |-> [c \in 1..cols |-> Num(0)]]

\* The 0-based columns that the slice  start::2  selects among cols columns.
StridedCols(start, cols) == {c \in 0..(cols - 1) : c >= start /\ (c - start) % 2 = 0}

\* pe[:, start::2] = src   (element-wise copy into every second column)
StridedAssign(pe, start, src) ==
    [r \in DOMAIN pe |->
        [c1 \in DOMAIN pe[r] |->
            IF (c1 - 1) \in StridedCols(start, Len(pe[r]))
            THEN src[r][((c1 - 1 - start) \div 2) + 1]
            ELSE pe[r][c1]]]

(***************************************************************************)
(* SinusoidalPositionalEncoding.build_table                                *)
(***************************************************************************)
d_model_is_odd_inverted(d_model) == d_model % 2 = 0

\* `d_model % 2 != 0`
d_model_is_odd(d_model) == d_model % 2 # 0

table_dtype_float64(dtype) == IF dtype = "None" THEN "float64" ELSE dtype

\* `_dtype = dtype or torch.float32`
table_dtype(dtype) == IF dtype = "None" THEN "float32" ELSE dtype

\* angles = pos / (10_000.0 ** (2.0 * i / d_model)),  shape (seq_len, d_model // 2)
angles(seq_len, d_model) ==
    LET pos == arange(seq_len)
        i   == arange(d_model \div 2)
    IN  [r \in 1..seq_len |->
            [j \in 1..(d_model \div 2) |-> Angle(pos[r], i[j], d_model)]]

sin_of(ang) == [r \in DOMAIN ang |-> [j \in DOMAIN ang[r] |-> Sin(ang[r][j])]]

cos_of(ang) == [r \in DOMAIN ang |-> [j \in DOMAIN ang[r] |-> Cos(ang[r][j])]]

fill_table_on_randn(seq_len, d_model) ==
    LET ang == angles(seq_len, d_model)
        pe0 == [r \in 1..seq_len |-> [c \in 1..d_model |-> Num(proc.random + r + c)]]
    IN  StridedAssign(pe0, 0, sin_of(ang))

fill_table_swapped(seq_len, d_model) ==
    LET ang == angles(seq_len, d_model)
        pe0 == zeros2(seq_len, d_model)
        pe1 == StridedAssign(pe0, 0, cos_of(ang))
    IN  StridedAssign(pe1, 1, sin_of(ang))

\* Lines 103-105: the table is allocated as zeros and the sine and cosine
\* columns are written by strided assignment.
fill_table(seq_len, d_model) ==
    LET ang == angles(seq_len, d_model)
        pe0 == zeros2(seq_len, d_model)
        pe1 == StridedAssign(pe0, 0, sin_of(ang))
    IN  StridedAssign(pe1, 1, cos_of(ang))

build_table(seq_len, d_model, dtype) ==
    IF d_model_is_odd(d_model)
    THEN Raise("ValueError", "d_model must be even, got {}", <<d_model>>,
               <<"check_even">>)
    ELSE IF Cardinality(StridedCols(0, d_model)) # d_model \div 2
    THEN \* the strided assignment of a (seq_len, d_model // 2) source into
         \* more columns than that is a shape mismatch in torch
         Raise("RuntimeError", "shape mismatch", <<d_model>>,
               <<"check_even", "alloc">>)
    ELSE Ok(Tensor(table_dtype(dtype), <<seq_len, d_model>>,
                   fill_table(seq_len, d_model)),
            <<"check_even", "alloc", "fill">>)

(***************************************************************************)
(* The tensor-library operations the three modules call.                   *)
(***************************************************************************)
Failed(r) == r.exc # "none"

FloatDTypes == {"float16", "bfloat16", "float32", "float64"}

IntDTypes == {"int32", "int64"}

\* Width order of the floating-point types; float16 and bfloat16 are
\* incomparable and promote to float32.
DTypeRank(d) ==
    IF d \in {"float16", "bfloat16"} THEN 1 ELSE IF d = "float32" THEN 2 ELSE 3

\* Type promotion of `a + b` for two tensors of floating-point type.
PromoteTypes(a, b) ==
    IF a = b THEN a
    ELSE IF {a, b} = {"float16", "bfloat16"} THEN "float32"
    ELSE IF DTypeRank(a) > DTypeRank(b) THEN a ELSE b

\* t.unsqueeze(0): (rows, cols) -> (1, rows, cols)
unsqueeze0(t) == Tensor(t.dtype, <<1>> \o t.shape, <<t.data>>)

Min(a, b) == IF a < b THEN a ELSE b

\* t[:, :n, :] of a 3-D tensor: a slice end beyond the size is clipped.
SliceRows(t, n) ==
    LET m == Min(n, t.shape[2])
    IN  Tensor(t.dtype, <<t.shape[1], m, t.shape[3]>>,
               [b \in 1..t.shape[1] |-> SubSeq(t.data[b], 1, m)])

Broadcastable(sx, sy) ==
    \A k \in 1..3 : sx[k] = sy[k] \/ sx[k] = 1 \/ sy[k] = 1

BroadcastIndex(n, size) == IF size = 1 THEN 1 ELSE n

\* x + y for two 3-D tensors, with broadcasting and type promotion.
AddBroadcast(x, y, steps) ==
    IF ~Broadcastable(x.shape, y.shape)
    THEN Raise("RuntimeError",
               "The size of tensor a ({}) must match the size of tensor b ({})",
               <<x.shape[2], y.shape[2]>>, steps)
    ELSE LET shape == [k \in 1..3 |->
                          IF x.shape[k] = 1 THEN y.shape[k] ELSE x.shape[k]]
         IN  Ok(Tensor(PromoteTypes(x.dtype, y.dtype), shape,
                  [b \in 1..shape[1] |-> [p \in 1..shape[2] |-> [c \in 1..shape[3] |->
                     Add(x.data[BroadcastIndex(b, x.shape[1])]
                               [BroadcastIndex(p, x.shape[2])]
                               [BroadcastIndex(c, x.shape[3])],
                         y.data[BroadcastIndex(b, y.shape[1])]
                               [BroadcastIndex(p, y.shape[2])]
                               [BroadcastIndex(c, y.shape[3])])]]]),
                steps)

\* nn.Embedding(num_embeddings, embedding_dim, padding_idx): a float32 weight
\* drawn at random (w[r, c] is the draw for row r, column c) whose padding
\* row, if any, is zeroed.
NoPad == -1

Embedding_init_no_padding(num_embeddings, embedding_dim, padding_idx, w) ==
    Tensor("float32", <<num_embeddings, embedding_dim>>,
           [r \in 1..num_embeddings |-> [c \in 1..embedding_dim |-> w[r, c]]])

Embedding_init(num_embeddings, embedding_dim, padding_idx, w) ==
    Tensor("float32", <<num_embeddings, embedding_dim>>,
           [r \in 1..num_embeddings |->
               [c \in 1..embedding_dim |->
                   IF r - 1 = padding_idx THEN Num(0) ELSE w[r, c]]])

\* nn.Embedding.__call__ on a 1-D index tensor: (n,) -> (n, d_model)
Embedding_lookup1(weight, idx, steps) ==
    IF \E j \in DOMAIN idx : idx[j] < 0 \/ idx[j] >= weight.shape[1]
    THEN Raise("IndexError", "index out of range in self", <<>>, steps)
    ELSE Ok(Tensor(weight.dtype, <<Len(idx), weight.shape[2]>>,
                   [j \in DOMAIN idx |-> weight.data[idx[j] + 1]]), steps)

\* nn.Embedding.__call__ on a 2-D id tensor: (B, L) -> (B, L, d_model)
Embedding_lookup2(weight, ids, steps) ==
    IF \E b \in DOMAIN ids.data : \E p \in DOMAIN ids.data[b] :
          ids.data[b][p] < 0 \/ ids.data[b][p] >= weight.shape[1]
    THEN Raise("IndexError", "index out of range in self", <<>>, steps)
    ELSE Ok(Tensor(weight.dtype, ids.shape \o <<weight.shape[2]>>,
                   [b \in DOMAIN ids.data |-> [p \in DOMAIN ids.data[b] |->
                       weight.data[ids.data[b][p] + 1]]]), steps)

Dropout_forward_ignores_mode(p, training, x, mask) ==
    IF p = 0 THEN x
    ELSE Tensor(x.dtype, x.shape,
           [b \in DOMAIN x.data |-> [q \in DOMAIN x.data[b] |->
              [c \in DOMAIN x.data[b][q] |->
                 IF mask[b, q, c]
                 THEN Scale(100 \div (100 - p), x.data[b][q][c])
                 ELSE Num(0)]]])

\* nn.Dropout(p).forward; p is in percent.  In evaluation mode, or with
\* p = 0, the identity; in training mode every element is zeroed where the
\* random mask says so and scaled by 1 / (1 - p) elsewhere.
Dropout_forward(p, training, x, mask) ==
    IF ~training \/ p = 0 THEN x
    ELSE Tensor(x.dtype, x.shape,
           [b \in DOMAIN x.data |-> [q \in DOMAIN x.data[b] |->
              [c \in DOMAIN x.data[b][q] |->
                 IF mask[b, q, c]
                 THEN Scale(100 \div (100 - p), x.data[b][q][c])
                 ELSE Num(0)]]])

(***************************************************************************)
(* SinusoidalPositionalEncoding                                            *)
(***************************************************************************)
CtorOk(m, steps) == [exc |-> "none", msg |-> NoMsg, module |-> m, steps |-> steps]

CtorRaise(r, steps) ==
    [exc |-> r.exc, msg |-> r.msg, module |-> [cls |-> "None"], steps |-> steps]

Sinusoidal_init_as_parameter(d_model, max_len, dropout) ==
    LET pe == build_table(max_len, d_model, "None")
        steps == <<"SinusoidalPositionalEncoding">> \o pe.steps
    IN  IF Failed(pe) THEN CtorRaise(pe, steps)
        ELSE CtorOk([cls |-> "SinusoidalPositionalEncoding",
                     dropout |-> dropout,
                     training |-> TRUE,
                     parameters |-> [pe |-> unsqueeze0(pe.out)],
                     buffers |-> <<>>],
                    steps \o <<"nn.Parameter">>)

\* __init__: the table is built once and registered as a buffer.
Sinusoidal_init(d_model, max_len, dropout) ==
    LET pe == build_table(max_len, d_model, "None")
        steps == <<"SinusoidalPositionalEncoding">> \o pe.steps
    IN  IF Failed(pe) THEN CtorRaise(pe, steps)
        ELSE CtorOk([cls |-> "SinusoidalPositionalEncoding",
                     dropout |-> dropout,
                     training |-> TRUE,
                     parameters |-> <<>>,
                     buffers |-> [pe |-> unsqueeze0(pe.out)]],
                    steps \o <<"register_buffer">>)

\* forward: x + self.pe[:, : x.size(1), :], then dropout.
Sinusoidal_forward(self, x, mask) ==
    LET sum == AddBroadcast(x, SliceRows(self.buffers.pe, x.shape[2]), <<"add">>)
    IN  IF Failed(sum) THEN sum
        ELSE Ok(Dropout_forward(self.dropout, self.training, sum.out, mask),
                <<"add", "dropout">>)

(***************************************************************************)
(* LearnedPositionalEmbedding                                              *)
(***************************************************************************)
\* __init__: self.embedding = nn.Embedding(max_len, d_model)
Learned_init(d_model, max_len, dropout, w) ==
    CtorOk([cls |-> "LearnedPositionalEmbedding",
            dropout |-> dropout,
            training |-> TRUE,
            parameters |->
                [embedding |-> Embedding_init(max_len, d_model, NoPad, w)],
            buffers |-> <<>>],
           <<"LearnedPositionalEmbedding", "nn.Embedding">>)

Learned_forward_row0(self, x, mask) ==
    LET positions == [j \in 1..x.shape[2] |-> 0]
        rows == Embedding_lookup1(self.parameters.embedding, positions, <<"lookup">>)
    IN  IF Failed(rows) THEN rows
        ELSE LET sum == AddBroadcast(x, unsqueeze0(rows.out), <<"lookup", "add">>)
             IN  IF Failed(sum) THEN sum
                 ELSE Ok(Dropout_forward(self.dropout, self.training, sum.out, mask),
                         <<"lookup", "add", "dropout">>)

\* The rows of the table that self.embedding(positions) touches.
rows_read(positions) == {positions[j] : j \in DOMAIN positions}

\* forward: x + self.embedding(arange(x.size(1))), then dropout.
Learned_forward(self, x, mask) ==
    LET positions == arange(x.shape[2])
        rows == Embedding_lookup1(self.parameters.embedding, positions, <<"lookup">>)
        reads == rows_read(positions)
    IN  IF Failed(rows) THEN [rows EXCEPT !.reads = reads]
        ELSE LET sum == AddBroadcast(x, unsqueeze0(rows.out), <<"lookup", "add">>)
             IN  IF Failed(sum) THEN [sum EXCEPT !.reads = reads]
                 ELSE [Ok(Dropout_forward(self.dropout, self.training, sum.out, mask),
                          <<"lookup", "add", "dropout">>)
                         EXCEPT !.reads = reads]

(***************************************************************************)
(* TokenAndPositionalEmbedding                                             *)
(***************************************************************************)
POS_REGISTRY ==
    [sinusoidal |-> "SinusoidalPositionalEncoding",
     learned    |-> "LearnedPositionalEmbedding"]

registry_get_with_default(pos_kind) ==
    IF pos_kind \in DOMAIN POS_REGISTRY THEN POS_REGISTRY[pos_kind]
    ELSE "SinusoidalPositionalEncoding"

\* _POS_REGISTRY.get(pos_kind)
registry_get(pos_kind) ==
    IF pos_kind \in DOMAIN POS_REGISTRY THEN POS_REGISTRY[pos_kind] ELSE "None"

\* sorted(self._POS_REGISTRY)
sorted_registry == <<"learned", "sinusoidal">>

\* pos_cls(d_model=d_model, max_len=max_len, dropout=...); w is the random
\* source a learned table is initialised from.
pos_cls_init(pos_cls, d_model, max_len, dropout, w) ==
    IF pos_cls = "SinusoidalPositionalEncoding"
    THEN Sinusoidal_init(d_model, max_len, dropout)
    ELSE Learned_init(d_model, max_len, dropout, w)

pos_dropout_passed_through(dropout) == dropout

\* The dropout probability the block hands to its positional module.
pos_dropout(dropout) == 0

Block_init_builds_table_first(vocab_size, d_model, max_len, pos_kind, dropout, pad_id, wtok, wpos) ==
    LET token == Embedding_init(vocab_size, d_model, pad_id, wtok)
        table == build_table(max_len, d_model, "None")
        pos_cls == registry_get(pos_kind)
        s0 == <<"nn.Embedding">> \o table.steps \o <<"registry_get">>
    IN  IF Failed(table) THEN CtorRaise(table, <<"nn.Embedding">> \o table.steps)
        ELSE IF pos_cls = "None"
        THEN CtorRaise(Raise("ValueError", "Unknown pos_kind {}. Choose from {}.",
                             <<pos_kind, sorted_registry>>, s0), s0)
        ELSE LET pos == pos_cls_init(pos_cls, d_model, max_len,
                                     pos_dropout(dropout), wpos)
             IN  CtorOk([cls |-> "TokenAndPositionalEmbedding",
                         max_len |-> max_len,
                         dropout |-> dropout,
                         training |-> TRUE,
                         parameters |-> [token |-> token],
                         buffers |-> <<>>,
                         padding_idx |-> pad_id,
                         pos |-> pos.module],
                        s0 \o pos.steps \o <<"nn.Dropout">>)

Block_init(vocab_size, d_model, max_len, pos_kind, dropout, pad_id, wtok, wpos) ==
    LET token == Embedding_init(vocab_size, d_model, pad_id, wtok)
        pos_cls == registry_get(pos_kind)
        s0 == <<"nn.Embedding", "registry_get">>
    IN  IF pos_cls = "None"
        THEN CtorRaise(Raise("ValueError", "Unknown pos_kind {}. Choose from {}.",
                             <<pos_kind, sorted_registry>>, s0), s0)
        ELSE LET pos == pos_cls_init(pos_cls, d_model, max_len,
                                     pos_dropout(dropout), wpos)
             IN  IF Failed(pos) THEN CtorRaise(pos, s0 \o pos.steps)
                 ELSE CtorOk([cls |-> "TokenAndPositionalEmbedding",
                              max_len |-> max_len,
                              dropout |-> dropout,
                              training |-> TRUE,
                              parameters |-> [token |-> token],
                              buffers |-> <<>>,
                              padding_idx |-> pad_id,
                              pos |-> pos.module],
                             s0 \o pos.steps \o <<"nn.Dropout">>)

\* self.pos(x): the forward of whichever positional module the block holds.
pos_forward(self, x, mask) ==
    IF self.cls = "SinusoidalPositionalEncoding"
    THEN Sinusoidal_forward(self, x, mask)
    ELSE Learned_forward(self, x, mask)

too_long_off_by_one(seq_len, max_len) == seq_len >= max_len

\* `seq_len > self.max_len`
too_long(seq_len, max_len) == seq_len > max_len

Block_forward(self, token_ids, mask_pos, mask) ==
    LET seq_len == token_ids.shape[2]
    IN  IF too_long(seq_len, self.max_len)
        THEN Raise("ValueError", "Sequence length {} exceeds max_len {}.",
                   <<seq_len, self.max_len>>, <<"check_len">>)
        ELSE LET x == Embedding_lookup2(self.parameters.token, token_ids,
                                        <<"check_len", "token">>)
             IN  IF Failed(x) THEN x
                 ELSE LET px == pos_forward(self.pos, x.out, mask_pos)
                          s3 == <<"check_len", "token", "pos">>
                      IN  IF Failed(px) THEN [px EXCEPT !.steps = s3]
                          ELSE [Ok(Dropout_forward(self.dropout, self.training,
                                                   px.out, mask),
                                   s3 \o <<"dropout">>)
                                  EXCEPT !.reads = px.reads]

forward_self_grows_max_len(self, x) ==
    IF self.cls = "TokenAndPositionalEmbedding" /\ x.shape[2] > self.max_len
    THEN [self EXCEPT !.max_len = x.shape[2]]
    ELSE self

forward_self_reslices_pe(self, x) ==
    IF self.cls = "SinusoidalPositionalEncoding"
    THEN [self EXCEPT !.buffers.pe = SliceRows(@, x.shape[2])]
    ELSE self

\* The module after forward(x): none of the three forward methods assigns
\* an attribute of self or writes a table in place.
forward_self(self, x) == self

(***************************************************************************)
(* nn.Module bookkeeping: parameters(), eval(), train().                   *)
(***************************************************************************)
numel(t) == IF Len(t.shape) = 2 THEN t.shape[1] * t.shape[2]
            ELSE t.shape[1] * t.shape[2] * t.shape[3]

RECURSIVE SumNumel(_)
SumNumel(ts) ==
    IF DOMAIN ts = {} THEN 0
    ELSE LET n == CHOOSE n \in DOMAIN ts : TRUE
         IN  numel(ts[n]) + SumNumel([m \in DOMAIN ts \ {n} |-> ts[m]])

\* sum(p.numel() for p in layer.parameters()): own parameters and those of
\* the submodule.
num_parameters(m) ==
    SumNumel(m.parameters)
      + (IF m.cls = "TokenAndPositionalEmbedding" THEN SumNumel(m.pos.parameters)
         ELSE 0)

\* module.train(mode): sets the flag on the module and on its submodule.
set_training(m, mode) ==
    IF m.cls = "TokenAndPositionalEmbedding"
    THEN [m EXCEPT !.training = mode, !.pos.training = mode]
    ELSE [m EXCEPT !.training = mode]

(***************************************************************************)
(* Inputs.                                                                 *)
(***************************************************************************)
DropoutChoices == {0, 50}       \* percent

WeightInits == {"ramp", "const"}

\* The random draws an nn.Embedding initialises its weight from.
InitWeight(kind, base) ==
    [r \in 1..(MaxLen + MaxVocab), c \in 1..MaxDModel |->
        Num(IF kind = "ramp" THEN base + 10 * r + c ELSE base)]

InputKinds == {"zeros", "ramp"}

\* A float batch of shape (B, L, D).
Input(kind, dtype, B, L, D) ==
    Tensor(dtype, <<B, L, D>>,
        [b \in 1..B |-> [q \in 1..L |-> [c \in 1..D |->
            Num(IF kind = "zeros" THEN 0 ELSE 100 * b + 10 * q + c)]]])

\* The (kind, dtype) pairs of the id batches tried.
IdInputs ==
    {<<"zeros", "int64">>, <<"ramp", "int64">>, <<"ramp", "int32">>,
     <<"oob", "int64">>}

\* An integer id batch of shape (B, L); "oob" holds one id = vocab_size.
TokenIds(kind, dtype, B, L, vocab_size) ==
    Tensor(dtype, <<B, L>>,
        [b \in 1..B |-> [q \in 1..L |->
            CASE kind = "zeros" -> 0
              [] kind = "ramp"  -> (b + q) % vocab_size
              [] OTHER          -> IF b = 1 /\ q = 1 THEN vocab_size ELSE 0]])

MaskKinds == {"keep", "checker"}

\* A dropout mask: TRUE where the element is kept.
MaskOf(kind) ==
    [b \in 1..MaxBatch, q \in 1..(MaxLen + 1), c \in 1..MaxDModel |->
        CASE kind = "keep" -> TRUE
          [] OTHER         -> (b + q + c) % 2 = 0]

PosKinds == {"sinusoidal", "learned", "rotary"}

(***************************************************************************)
(* utils/seed.py: seeding of the process-global random number generators.  *)
(***************************************************************************)
\* A seed argument is any Python object: its type and, for a number, its
\* value.
IntSeed(n) == [type |-> "int", v |-> n]

\* isinstance(seed, int)
isinstance_int(seed) == seed.type = "int"

\* str(seed) of an int: its decimal digits.
str(seed) == ToString(seed.v)

CUBLAS_DETERMINISTIC_CONFIG == ":4096:8"

\* The generators are abstract: seeding puts a generator in a state that
\* is a function of the seed, and every draw moves it to the next state
\* and returns a value that is a function of the state.
random_seed(n) == (5 * n + 3) % RngStates

random_next(state) == (3 * state + 1) % RngStates

np_random_seed(n) == (7 * n + 1) % RngStates

np_random_next(state) == (5 * state + 3) % RngStates

Unset == "unset"

\* The process-global state the seeding utilities write: the two global
\* generators, the seeds given to torch, os.environ and the torch flags.
Process(random0, numpy0, benchmark0) ==
    [random |-> random0,
     numpy |-> numpy0,
     torch |-> Unset,
     cuda |-> Unset,
     environ |-> [PYTHONHASHSEED |-> Unset, CUBLAS_WORKSPACE_CONFIG |-> Unset],
     cudnn |-> [deterministic |-> FALSE, benchmark |-> benchmark0],
     deterministic_algorithms |-> "off"]

\* What is installed: torch or not, CUDA or not, and which signature
\* torch.use_deterministic_algorithms has.
Platforms ==
    {[torch |-> FALSE, cuda |-> FALSE, api |-> "none"]}
    \cup [torch : {TRUE}, cuda : BOOLEAN, api : {"warn_only", "no_warn_only", "none"}]

\* The running state of a call: the process, the library calls made so far
\* and the exception in flight, if any.
Running(proc0) == [proc |-> proc0, steps |-> <<>>, exc |-> "none"]

Step(st, new_proc, step) ==
    [st EXCEPT !.proc = new_proc, !.steps = Append(@, step)]

\* torch.use_deterministic_algorithms(True[, warn_only=True]) on the
\* installed torch.
use_deterministic_algorithms(plat, warn_only, st) ==
    IF plat.api = "none"
    THEN [st EXCEPT !.exc = "AttributeError"]
    ELSE IF warn_only /\ plat.api = "no_warn_only"
    THEN [st EXCEPT !.exc = "TypeError",
                    !.steps = Append(@, "use_deterministic_algorithms(True, warn_only=True)")]
    ELSE Step(st,
              [st.proc EXCEPT !.deterministic_algorithms =
                                  IF warn_only THEN "warn_only" ELSE "on"],
              IF warn_only THEN "use_deterministic_algorithms(True, warn_only=True)"
              ELSE "use_deterministic_algorithms(True)")

seed_python_clears_cublas(seed, deterministic, st) ==
    LET s1 == Step(st, [st.proc EXCEPT !.random = random_seed(seed.v)], "random.seed")
        s2 == Step(s1, [s1.proc EXCEPT !.environ.PYTHONHASHSEED = str(seed)],
                   "environ[PYTHONHASHSEED]")
    IN  IF deterministic
        THEN Step(s2, [s2.proc EXCEPT !.environ.CUBLAS_WORKSPACE_CONFIG =
                                          CUBLAS_DETERMINISTIC_CONFIG],
                  "environ[CUBLAS_WORKSPACE_CONFIG]")
        ELSE Step(s2, [s2.proc EXCEPT !.environ.CUBLAS_WORKSPACE_CONFIG = Unset],
                  "environ.pop(CUBLAS_WORKSPACE_CONFIG)")

\* _seed_python
seed_python(seed, deterministic, st) ==
    LET s1 == Step(st, [st.proc EXCEPT !.random = random_seed(seed.v)], "random.seed")
        s2 == Step(s1, [s1.proc EXCEPT !.environ.PYTHONHASHSEED = str(seed)],
                   "environ[PYTHONHASHSEED]")
    IN  IF deterministic
        THEN Step(s2, [s2.proc EXCEPT !.environ.CUBLAS_WORKSPACE_CONFIG =
                                          CUBLAS_DETERMINISTIC_CONFIG],
                  "environ[CUBLAS_WORKSPACE_CONFIG]")
        ELSE s2

seed_numpy_skipped(seed, st) == st

\* _seed_numpy
seed_numpy(seed, st) ==
    Step(st, [st.proc EXCEPT !.numpy = np_random_seed(seed.v)], "np.random.seed")

seed_torch_without_fallback(seed, deterministic, plat, st) ==
    IF ~plat.torch THEN st
    ELSE LET s1 == Step(st, [st.proc EXCEPT !.torch = seed.v], "torch.manual_seed")
             s2 == IF plat.cuda
                   THEN Step(s1, [s1.proc EXCEPT !.cuda = seed.v],
                             "torch.cuda.manual_seed_all")
                   ELSE s1
         IN  IF ~deterministic THEN s2
             ELSE LET s3 == Step(s2, [s2.proc EXCEPT !.cudnn.deterministic = TRUE],
                                 "cudnn.deterministic")
                      s4 == Step(s3, [s3.proc EXCEPT !.cudnn.benchmark = FALSE],
                                 "cudnn.benchmark")
                  IN  use_deterministic_algorithms(plat, TRUE, s4)

\* _seed_torch
seed_torch(seed, deterministic, plat, st) ==
    IF ~plat.torch THEN st
    ELSE LET s1 == Step(st, [st.proc EXCEPT !.torch = seed.v], "torch.manual_seed")
             s2 == IF plat.cuda
                   THEN Step(s1, [s1.proc EXCEPT !.cuda = seed.v],
                             "torch.cuda.manual_seed_all")
                   ELSE s1
         IN  IF ~deterministic THEN s2
             ELSE LET s3 == Step(s2, [s2.proc EXCEPT !.cudnn.deterministic = TRUE],
                                 "cudnn.deterministic")
                      s4 == Step(s3, [s3.proc EXCEPT !.cudnn.benchmark = FALSE],
                                 "cudnn.benchmark")
                      try == use_deterministic_algorithms(plat, TRUE, s4)
                  IN  CASE try.exc = "TypeError" ->
                             use_deterministic_algorithms(plat, FALSE,
                                                          [try EXCEPT !.exc = "none"])
                        [] try.exc = "AttributeError" ->
                             Step([try EXCEPT !.exc = "none"], try.proc, "logger.debug")
                        [] OTHER -> try

seed_is_invalid_zero_rejected(seed) == ~isinstance_int(seed) \/ seed.v <= 0

\* `not isinstance(seed, int) or seed < 0`
seed_is_invalid(seed) == ~isinstance_int(seed) \/ seed.v < 0

\* What a call of the seeding utilities leaves: the process and the outcome.
Outcome(st) ==
    [proc |-> st.proc,
     result |-> IF st.exc = "none" THEN Ok(NoTensor, st.steps)
                ELSE Raise(st.exc, "", <<>>, st.steps)]

\* set_seed(seed, deterministic=...)
set_seed(seed, deterministic, plat, proc0) ==
    IF seed_is_invalid(seed)
    THEN [proc |-> proc0,
          result |-> Raise("ValueError", "seed must be a non-negative integer, got {}",
                           <<seed>>, <<"validate">>)]
    ELSE LET s0 == Step(Running(proc0), proc0, "validate")
             s1 == seed_python(seed, deterministic, s0)
             s2 == seed_numpy(seed, s1)
             s3 == seed_torch(seed, deterministic, plat, s2)
         IN  Outcome(s3)

\* SeedConfig(seed=..., deterministic=...): __post_init__ validates.
SeedConfig_init(seed, deterministic) ==
    IF seed_is_invalid(seed)
    THEN [exc |-> "ValueError",
          msg |-> [fmt |-> "seed must be a non-negative integer, got {}",
                   args |-> <<seed>>],
          self |-> [cls |-> "None"]]
    ELSE [exc |-> "none", msg |-> NoMsg,
          self |-> [cls |-> "SeedConfig", seed |-> seed,
                    deterministic |-> deterministic]]

\* SeedConfig.apply
SeedConfig_apply(self, plat, proc0) ==
    set_seed(self.seed, self.deterministic, plat, proc0)

(***************************************************************************)
(* State.                                                                  *)
(***************************************************************************)
vars ==
    <<module, call, result, constructed, failed, last, proc, platform, drawn, asked>>

modvars == <<module, constructed, failed>>

seedvars == <<proc, platform, drawn, asked>>

NoModule == [cls |-> "None"]

NoCall == [op |-> "none"]

DTypeArgs == {"None", "float16", "float32", "float64"}

NoResult == Ok(NoTensor, <<>>)

NoLast == [call |-> NoCall, result |-> NoResult, training |-> FALSE]

NoSeed == -1

NoDrawn == [seed |-> NoSeed, random |-> <<>>, numpy |-> <<>>]

\* No object exists and no call has been made.
InitObjects ==
    /\ module = NoModule
    /\ call = NoCall
    /\ result = NoResult
    /\ constructed = NoModule
    /\ failed = FALSE
    /\ last = NoLast
    /\ drawn = NoDrawn

\* A process with torch on a CPU-only machine.
Init ==
    /\ InitObjects
    /\ proc = Process(0, 0, FALSE)
    /\ asked = [benchmark0 |-> FALSE, deterministic |-> FALSE]
    /\ platform = [torch |-> TRUE, cuda |-> FALSE, api |-> "warn_only"]

\* Any process: the unseeded generators start from entropy, the machine may
\* or may not have torch and CUDA, cudnn.benchmark may have been switched on.
InitSeed ==
    /\ InitObjects
    /\ \E random0 \in 0..(RngStates - 1), numpy0 \in 0..(RngStates - 1),
          benchmark0 \in BOOLEAN :
         /\ proc = Process(random0, numpy0, benchmark0)
         /\ asked = [benchmark0 |-> benchmark0, deterministic |-> FALSE]
    /\ platform \in Platforms

\* The program is sequential: an operation starts only when no call is
\* pending, and its outcome stays in `result` until the caller takes it.
Idle == call = NoCall

\* A direct call of the static method build_table.
BuildTable ==
    /\ Idle
    /\ module = NoModule
    /\ last = NoLast
    /\ \E seq_len \in 1..(MaxLen + 1), d_model \in 1..MaxDModel, dtype \in DTypeArgs :
         /\ call' = [op |-> "build_table", seq_len |-> seq_len,
                     d_model |-> d_model, dtype |-> dtype, again |-> FALSE]
         /\ result' = build_table(seq_len, d_model, dtype)
    /\ UNCHANGED <<modvars, last, seedvars>>

\* build_table once more, with the arguments of the remembered call.
BuildTableAgain ==
    /\ Idle
    /\ last.call.op = "build_table"
    /\ call' = [last.call EXCEPT !.again = TRUE]
    /\ result' = build_table(last.call.seq_len, last.call.d_model, last.call.dtype)
    /\ UNCHANGED <<modvars, last, seedvars>>

\* What a constructor call leaves in `result`.
CtorResult(r) ==
    [exc |-> r.exc, msg |-> r.msg, out |-> NoTensor, steps |-> r.steps,
     reads |-> {}]

ConstructSinusoidal ==
    /\ Idle
    /\ module = NoModule
    /\ last = NoLast
    /\ \E d_model \in 1..MaxDModel, max_len \in 1..MaxLen, dropout \in DropoutChoices :
         LET r == Sinusoidal_init(d_model, max_len, dropout)
         IN  /\ call' = [op |-> "Sinusoidal_init", d_model |-> d_model,
                         max_len |-> max_len, dropout |-> dropout]
             /\ module' = r.module
             /\ constructed' = r.module
             /\ result' = CtorResult(r)
    /\ UNCHANGED <<failed, last, seedvars>>

ConstructLearned ==
    /\ Idle
    /\ module = NoModule
    /\ last = NoLast
    /\ \E d_model \in 1..MaxDModel, max_len \in 1..MaxLen,
          dropout \in DropoutChoices, init \in WeightInits :
         LET r == Learned_init(d_model, max_len, dropout, InitWeight(init, 0))
         IN  /\ call' = [op |-> "Learned_init", d_model |-> d_model,
                         max_len |-> max_len, dropout |-> dropout]
             /\ module' = r.module
             /\ constructed' = r.module
             /\ result' = CtorResult(r)
    /\ UNCHANGED <<failed, last, seedvars>>

ConstructBlock ==
    /\ Idle
    /\ module = NoModule
    /\ last = NoLast
    /\ \E vocab_size \in 2..MaxVocab, d_model \in 1..MaxDModel,
          max_len \in 1..MaxLen, pos_kind \in PosKinds,
          dropout \in DropoutChoices, init \in WeightInits :
       \E pad_id \in {NoPad, 0} :
         LET r == Block_init(vocab_size, d_model, max_len, pos_kind, dropout,
                             pad_id, InitWeight("ramp", 1000), InitWeight(init, 0))
         IN  /\ call' = [op |-> "Block_init", vocab_size |-> vocab_size,
                         d_model |-> d_model, max_len |-> max_len,
                         pos_kind |-> pos_kind, dropout |-> dropout,
                         pad_id |-> pad_id]
             /\ module' = r.module
             /\ constructed' = r.module
             /\ result' = CtorResult(r)
    /\ UNCHANGED <<failed, last, seedvars>>

IsPositional(m) ==
    m.cls \in {"SinusoidalPositionalEncoding", "LearnedPositionalEmbedding"}

\* The table a positional module adds: the buffer pe[0] or the weight.
pos_table(m) ==
    IF m.cls = "SinusoidalPositionalEncoding"
    THEN [m.buffers.pe EXCEPT !.shape = <<@[2], @[3]>>, !.data = @[1]]
    ELSE m.parameters.embedding

\* A ValueError whose message contains 'exceeds max_len'.
SequenceTooLong(r) ==
    /\ r.exc = "ValueError"
    /\ r.msg.fmt = "Sequence length {} exceeds max_len {}."

\* module(x): nn.Module.__call__ dispatches to the forward of its class.
module_call(m, x, mask_pos, mask) ==
    IF m.cls = "TokenAndPositionalEmbedding"
    THEN Block_forward(m, x, mask_pos, mask)
    ELSE pos_forward(m, x, mask)

\* The effect of module(x) on the state; the two masks are the random draws
\* of the dropout layers.
Forward(x, mask_pos, mask, again) ==
    LET r == module_call(module, x, MaskOf(mask_pos), MaskOf(mask))
    IN  /\ call' = [op |-> "forward", x |-> x, again |-> again]
        /\ result' = r
        /\ module' = forward_self(module, x)
        /\ failed' = (failed \/ (module.cls = "TokenAndPositionalEmbedding"
                                   /\ SequenceTooLong(r)))
        /\ UNCHANGED <<constructed, last, seedvars>>

\* layer(x) on a positional module used on its own.
ForwardPos ==
    /\ Idle
    /\ IsPositional(module)
    /\ last = NoLast
    /\ \E B \in 1..MaxBatch, L \in 1..(pos_table(module).shape[1] + 1),
          kind \in InputKinds, dtype \in FloatDTypes, mask \in MaskKinds :
         Forward(Input(kind, dtype, B, L, pos_table(module).shape[2]), mask, mask,
                 FALSE)

\* block(token_ids)
ForwardBlock ==
    /\ Idle
    /\ module.cls = "TokenAndPositionalEmbedding"
    /\ last = NoLast
    /\ \E B \in 1..MaxBatch, L \in 1..(module.max_len + 1), in \in IdInputs,
          mask_pos \in MaskKinds, mask \in MaskKinds :
         Forward(TokenIds(in[1], in[2], B, L, module.parameters.token.shape[1]),
                 mask_pos, mask, FALSE)

\* module(x) once more, on the input of the remembered call.
ForwardAgain ==
    /\ Idle
    /\ module # NoModule
    /\ last.call.op = "forward"
    /\ \E mask_pos \in MaskKinds, mask \in MaskKinds :
         Forward(last.call.x, mask_pos, mask, TRUE)

\* module.eval()
Eval ==
    /\ Idle
    /\ module # NoModule
    /\ module.training
    /\ module' = set_training(module, FALSE)
    /\ UNCHANGED <<call, result, constructed, failed, last, seedvars>>

\* module.train()
Train ==
    /\ Idle
    /\ module # NoModule
    /\ ~module.training
    /\ module' = set_training(module, TRUE)
    /\ UNCHANGED <<call, result, constructed, failed, last, seedvars>>

\* The caller takes the outcome of the last call.
Return ==
    /\ ~Idle
    /\ call' = NoCall
    /\ result' = NoResult
    /\ UNCHANGED <<modvars, last, seedvars>>

\* History only: the pending forward call is remembered, to be compared with
\* a later call on the same input.
RememberForward ==
    /\ call.op = "forward"
    /\ last = NoLast
    /\ last' = [call |-> call, result |-> result, training |-> module.training]
    /\ UNCHANGED <<modvars, call, result, seedvars>>

\* History only: a build_table call made before any seeding or draw is
\* remembered, to be compared with a later call with the same arguments.
RememberTable ==
    /\ call.op = "build_table"
    /\ last = NoLast
    /\ drawn = NoDrawn
    /\ last' = [call |-> call, result |-> result, training |-> FALSE]
    /\ UNCHANGED <<modvars, call, result, seedvars>>

\* History only: the remembered call is dropped.
Forget ==
    /\ Idle
    /\ last # NoLast
    /\ last' = NoLast
    /\ UNCHANGED <<modvars, call, result, seedvars>>

\* The seed arguments a caller may pass: integers, and objects that are not.
SeedArgs ==
    {IntSeed(n) : n \in (-2)..MaxSeed}
    \cup {[type |-> "float", v |-> 1], [type |-> "str", v |-> 1],
          [type |-> "NoneType", v |-> 0]}

\* The effect of a seeding call on the state: a successful one starts a new
\* stream of draws.
Seeded(op, seed, deterministic, o) ==
    /\ call' = [op |-> op, seed |-> seed, deterministic |-> deterministic,
                before |-> proc]
    /\ result' = o.result
    /\ proc' = o.proc
    /\ drawn' = IF o.result.exc = "none"
                THEN [seed |-> seed.v, random |-> <<>>, numpy |-> <<>>]
                ELSE drawn
    /\ asked' = IF o.result.exc = "none" /\ deterministic
                THEN [asked EXCEPT !.deterministic = TRUE]
                ELSE asked
    /\ UNCHANGED <<modvars, last, platform>>

\* set_seed(seed, deterministic=deterministic)
SetSeed ==
    /\ Idle
    /\ \E seed \in SeedArgs, deterministic \in BOOLEAN :
         Seeded("set_seed", seed, deterministic,
                set_seed(seed, deterministic, platform, proc))

\* SeedConfig(seed=seed, deterministic=deterministic).apply()
ApplySeedConfig ==
    /\ Idle
    /\ \E seed \in SeedArgs, deterministic \in BOOLEAN :
         LET c == SeedConfig_init(seed, deterministic)
         IN  Seeded("SeedConfig.apply", seed, deterministic,
                    IF c.exc # "none"
                    THEN [proc |-> proc,
                          result |-> Raise(c.exc, c.msg.fmt, c.msg.args,
                                           <<"__post_init__">>)]
                    ELSE SeedConfig_apply(c.self, platform, proc))

\* random.random(): a draw from Python's global generator.
DrawPython ==
    /\ Idle
    /\ Len(drawn.random) < MaxDraws
    /\ proc' = [proc EXCEPT !.random = random_next(@)]
    /\ drawn' = [drawn EXCEPT !.random = Append(@, random_next(proc.random))]
    /\ UNCHANGED <<modvars, call, result, last, platform, asked>>

\* np.random.rand(): a draw from NumPy's legacy global generator.
DrawNumpy ==
    /\ Idle
    /\ Len(drawn.numpy) < MaxDraws
    /\ proc' = [proc EXCEPT !.numpy = np_random_next(@)]
    /\ drawn' = [drawn EXCEPT !.numpy = Append(@, np_random_next(proc.numpy))]
    /\ UNCHANGED <<modvars, call, result, last, platform, asked>>

Next ==
    \/ BuildTable
    \/ ConstructSinusoidal
    \/ ConstructLearned
    \/ ConstructBlock
    \/ ForwardPos
    \/ ForwardBlock
    \/ ForwardAgain
    \/ Eval
    \/ Train
    \/ Return
    \/ RememberForward
    \/ Forget

Spec == Init /\ [][Next]_vars

\* The seeding utilities on any process.
NextSeed ==
    \/ SetSeed
    \/ ApplySeedConfig
    \/ DrawPython
    \/ DrawNumpy
    \/ Return

SpecSeed == InitSeed /\ [][NextSeed]_vars

\* build_table between seeding calls and draws.
NextTable ==
    \/ BuildTable
    \/ BuildTableAgain
    \/ RememberTable
    \/ Forget
    \/ SetSeed
    \/ DrawPython
    \/ DrawNumpy
    \/ Return

SpecTable == Init /\ [][NextTable]_vars

(***************************************************************************)
(* The error taxonomy, as the callers and the tests recognise it.          *)
(***************************************************************************)
\* A ValueError whose message contains 'Unknown pos_kind'.
UnknownStrategy(r) ==
    /\ r.exc = "ValueError"
    /\ r.msg.fmt = "Unknown pos_kind {}. Choose from {}."

\* A ValueError whose message contains 'd_model must be even'.
InvalidDimension(r) ==
    /\ r.exc = "ValueError"
    /\ r.msg.fmt = "d_model must be even, got {}"

IsBlock(m) == m.cls = "TokenAndPositionalEmbedding"

IsSinusoidal(m) == m.cls = "SinusoidalPositionalEncoding"

IsLearned(m) == m.cls = "LearnedPositionalEmbedding"

\* The pending call is a forward of the block / of a positional module.
BlockForward == IsBlock(module) /\ call.op = "forward"

PosForward == IsPositional(module) /\ call.op = "forward"

\* The max_len a positional module was constructed with.
pos_max_len(m) == pos_table(m).shape[1]

IdsInRange(ids, vocab_size) ==
    \A b \in DOMAIN ids.data : \A q \in DOMAIN ids.data[b] :
        ids.data[b][q] >= 0 /\ ids.data[b][q] < vocab_size

(***************************************************************************)
(* C1: the block's forward fails with SequenceTooLong if and only if       *)
(* seq_len > max_len, for both strategies; when it does, only the length   *)
(* check has run (no token lookup, no positional module); and a batch of   *)
(* in-range ids with seq_len = max_len succeeds.                           *)
(***************************************************************************)
C1_ForwardLengthGuard ==
    BlockForward =>
        LET seq_len == call.x.shape[2]
        IN  /\ SequenceTooLong(result) <=> seq_len > module.max_len
            /\ SequenceTooLong(result) =>
                    /\ result.steps = <<"check_len">>
                    /\ result.msg.args = <<seq_len, module.max_len>>
            /\ (seq_len = module.max_len
                    /\ IdsInRange(call.x, module.parameters.token.shape[1]))
                  => result.exc = "none"

C1_Witness ==
    /\ BlockForward
    /\ IsLearned(module.pos)
    /\ call.x.shape[2] = module.max_len + 1
    /\ SequenceTooLong(result)

(***************************************************************************)
(* C2: SinusoidalPositionalEncoding.forward called directly with           *)
(* seq_len > max_len fails with SequenceTooLong.                           *)
(***************************************************************************)
C2_SinusoidalRejectsTooLong ==
    (PosForward /\ IsSinusoidal(module)
        /\ call.x.shape[2] > pos_max_len(module))
      => SequenceTooLong(result)

(***************************************************************************)
(* C3: LearnedPositionalEmbedding.forward called directly with             *)
(* seq_len > max_len fails with SequenceTooLong.                           *)
(***************************************************************************)
C3_LearnedRejectsTooLong ==
    (PosForward /\ IsLearned(module)
        /\ call.x.shape[2] > pos_max_len(module))
      => SequenceTooLong(result)

(***************************************************************************)
(* C4: for both positional modules a successful forward returns a tensor   *)
(* of the floating-point type of its input x, float16 and bfloat16         *)
(* included.                                                               *)
(***************************************************************************)
C4_DTypePreserved ==
    (PosForward /\ result.exc = "none") => result.out.dtype = call.x.dtype

(***************************************************************************)
(* C5: constructing the block with a pos_kind outside {"sinusoidal",       *)
(* "learned"} fails with UnknownStrategy, the message carries the          *)
(* offending value and the sorted valid choices, no instance exists and no *)
(* positional module was instantiated; with a valid tag exactly one        *)
(* positional module is instantiated and it is of the matching class.      *)
(***************************************************************************)
PosClassNames == {"SinusoidalPositionalEncoding", "LearnedPositionalEmbedding"}

PosCtorSteps(steps) == {j \in DOMAIN steps : steps[j] \in PosClassNames}

C5_StrategySelection ==
    call.op = "Block_init" =>
        LET valid == call.pos_kind \in {"sinusoidal", "learned"}
            expected == IF call.pos_kind = "sinusoidal"
                        THEN "SinusoidalPositionalEncoding"
                        ELSE "LearnedPositionalEmbedding"
            ctors == PosCtorSteps(result.steps)
        IN  /\ UnknownStrategy(result) <=> ~valid
            /\ ~valid =>
                  /\ module = NoModule
                  /\ ctors = {}
                  /\ result.msg.args = <<call.pos_kind, <<"learned", "sinusoidal">>>>
            /\ valid =>
                  /\ Cardinality(ctors) = 1
                  /\ \A j \in ctors : result.steps[j] = expected
                  /\ result.exc = "none" =>
                        IsBlock(module) /\ module.pos.cls = expected

C5_Witness ==
    /\ call.op = "Block_init"
    /\ call.pos_kind = "rotary"
    /\ UnknownStrategy(result)
    /\ module = NoModule

(***************************************************************************)
(* C6: build_table fails with InvalidDimension exactly when d_model is     *)
(* odd; the message carries d_model and nothing but the parity check has   *)
(* run (no table was allocated).                                           *)
(***************************************************************************)
C6_OddDModelRejected ==
    call.op = "build_table" =>
        /\ InvalidDimension(result) <=> call.d_model % 2 = 1
        /\ InvalidDimension(result) =>
              /\ result.steps = <<"check_even">>
              /\ result.msg.args = <<call.d_model>>
              /\ result.out = NoTensor

C6_Witness ==
    /\ call.op = "build_table"
    /\ call.d_model = 3
    /\ InvalidDimension(result)

(***************************************************************************)
(* C7: for even d_model >= 2 and seq_len >= 1 build_table succeeds with a  *)
(* (seq_len, d_model) table; at position p, column 2i is the sine and      *)
(* column 2i+1 the cosine of the angle p / 10000^(2i/d_model); row 0 is    *)
(* [0, 1, 0, 1, ...].                                                      *)
(***************************************************************************)
C7_TableContents ==
    (call.op = "build_table" /\ call.d_model % 2 = 0
        /\ call.d_model >= 2 /\ call.seq_len >= 1) =>
        LET pe == result.out
            d == call.d_model
        IN  /\ result.exc = "none"
            /\ pe.shape = <<call.seq_len, d>>
            /\ Len(pe.data) = call.seq_len
            /\ \A p \in 0..(call.seq_len - 1) :
                  /\ Len(pe.data[p + 1]) = d
                  /\ \A i \in 0..((d \div 2) - 1) :
                        /\ pe.data[p + 1][2 * i + 1] = Sin(Angle(p, i, d))
                        /\ pe.data[p + 1][2 * i + 2] = Cos(Angle(p, i, d))
            /\ \A c \in 1..d :
                  pe.data[1][c] = IF c % 2 = 1 THEN Num(0) ELSE Num(1)

C7_Witness ==
    /\ call.op = "build_table"
    /\ call.d_model = 4
    /\ call.seq_len = 3
    /\ result.exc = "none"
    /\ result.out.data[3][3] = Sym(<<"sin", 2, 1, 2>>)

(***************************************************************************)
(* C8: for both positional modules, with dropout disabled and              *)
(* seq_len <= max_len, forward(x)[b, p, :] = x[b, p, :] + table[p, :] for  *)
(* every batch index b and position p; a zero input returns the table rows *)
(* 0..seq_len-1.                                                           *)
(***************************************************************************)
DropoutDisabled(m) == m.dropout = 0 \/ ~m.training

IsZero(x) ==
    \A b \in DOMAIN x.data : \A q \in DOMAIN x.data[b] :
        \A c \in DOMAIN x.data[b][q] : x.data[b][q][c] = Num(0)

C8_AddsTableRows ==
    (PosForward /\ DropoutDisabled(module)
        /\ call.x.shape[2] <= pos_max_len(module)) =>
        LET x == call.x
            out == result.out
            table == pos_table(module)
        IN  /\ result.exc = "none"
            /\ out.shape = x.shape
            /\ Len(out.data) = x.shape[1]
            /\ \A b \in 1..x.shape[1] :
                  /\ Len(out.data[b]) = x.shape[2]
                  /\ \A q \in 1..x.shape[2] :
                        /\ Len(out.data[b][q]) = x.shape[3]
                        /\ \A c \in 1..x.shape[3] :
                              out.data[b][q][c]
                                = Add(x.data[b][q][c], table.data[q][c])
                        /\ IsZero(x) => out.data[b][q] = table.data[q]

C8_Witness ==
    /\ PosForward
    /\ IsLearned(module)
    /\ module.dropout = 50
    /\ ~module.training
    /\ call.x.shape = <<2, 2, 4>>
    /\ pos_max_len(module) = 2
    /\ ~IsZero(call.x)
    /\ result.exc = "none"
    /\ module.parameters.embedding.data[1] # module.parameters.embedding.data[2]

(***************************************************************************)
(* C9: for both strategies, on an id batch of shape (B, L) with            *)
(* L <= max_len and ids in [0, vocab_size), the block returns a tensor of  *)
(* shape (B, L, d_model) whose type is that of the token table, float32,   *)
(* whatever the integer type of the ids.                                   *)
(***************************************************************************)
C9_BlockOutputShapeAndDType ==
    (BlockForward /\ call.x.shape[2] <= module.max_len
        /\ IdsInRange(call.x, module.parameters.token.shape[1])) =>
        LET token == module.parameters.token
            out == result.out
        IN  /\ call.x.dtype \in IntDTypes
            /\ result.exc = "none"
            /\ out.shape = <<call.x.shape[1], call.x.shape[2], token.shape[2]>>
            /\ Len(out.data) = call.x.shape[1]
            /\ \A b \in DOMAIN out.data :
                  /\ Len(out.data[b]) = call.x.shape[2]
                  /\ \A q \in DOMAIN out.data[b] :
                        Len(out.data[b][q]) = token.shape[2]
            /\ out.dtype = token.dtype
            /\ out.dtype = "float32"

C9_Witness ==
    /\ BlockForward
    /\ IsSinusoidal(module.pos)
    /\ call.x.dtype = "int32"
    /\ result.exc = "none"
    /\ result.out.shape = <<2, 2, 4>>

(***************************************************************************)
(* C10: a freshly constructed sinusoidal module has no parameters (its     *)
(* table is the buffer "pe"), a learned module has max_len * d_model, and  *)
(* a block has vocab_size * d_model, plus max_len * d_model with the       *)
(* learned strategy.                                                       *)
(***************************************************************************)
C10_ParameterCounts ==
    result.exc = "none" =>
        /\ call.op = "Sinusoidal_init" =>
              /\ num_parameters(module) = 0
              /\ DOMAIN module.parameters = {}
              /\ DOMAIN module.buffers = {"pe"}
        /\ call.op = "Learned_init" =>
              num_parameters(module) = call.max_len * call.d_model
        /\ call.op = "Block_init" =>
              num_parameters(module)
                = call.vocab_size * call.d_model
                    + (IF call.pos_kind = "learned"
                       THEN call.max_len * call.d_model ELSE 0)

C10_Witness ==
    /\ call.op = "Block_init"
    /\ call.pos_kind = "learned"
    /\ result.exc = "none"
    /\ call.vocab_size = 3
    /\ call.d_model = 4
    /\ call.max_len = 2
    /\ num_parameters(module) = 20

(***************************************************************************)
(* C11: in evaluation mode dropout is the identity whatever its            *)
(* probability, so a second forward on the same input, with no table       *)
(* update in between, returns exactly what the first returned; the same    *)
(* holds in training mode with p = 0.  Only training mode with p > 0 may   *)
(* make two calls differ.  This holds for both positional modules and for  *)
(* the block.                                                              *)
(***************************************************************************)
\* The module with every dropout probability set to zero.
without_dropout(m) ==
    IF IsBlock(m) THEN [m EXCEPT !.dropout = 0, !.pos.dropout = 0]
    ELSE [m EXCEPT !.dropout = 0]

\* The pending call repeats the remembered one on the same input.
SecondForward ==
    /\ call.op = "forward"
    /\ call.again
    /\ last.call.op = "forward"
    /\ last.call.x = call.x

C11_EvalDeterministic ==
    /\ (call.op = "forward" /\ ~module.training) =>
          result = module_call(without_dropout(module), call.x,
                               MaskOf("keep"), MaskOf("keep"))
    /\ SecondForward =>
          /\ (~last.training /\ ~module.training) => result = last.result
          /\ module.dropout = 0 => result = last.result
          /\ result # last.result =>
                /\ module.dropout > 0
                /\ last.training \/ module.training

C11_Witness ==
    /\ SecondForward
    /\ IsBlock(module)
    /\ module.dropout = 50
    /\ ~last.training
    /\ ~module.training
    /\ result.exc = "none"
    /\ result = last.result
    /\ ~IsZero(result.out)

\* Training mode with p > 0: two calls on the same input do differ.
C11_TrainingDiffers ==
    /\ SecondForward
    /\ module.training
    /\ last.training
    /\ result.exc = "none"
    /\ result # last.result

(***************************************************************************)
(* C12: when the block is given a pad_id, row pad_id of the token table is *)
(* all zeros after construction and after any number of forward calls; in  *)
(* evaluation mode the output at a position p whose id is pad_id is row p  *)
(* of the positional table: the padding token adds nothing.                *)
(***************************************************************************)
HasPadding(m) == IsBlock(m) /\ m.padding_idx # NoPad

\* Row r (0-based) of the table is all zeros.
ZeroRow(table, r) ==
    \A c \in DOMAIN table.data[r + 1] : table.data[r + 1][c] = Num(0)

C12_PaddingRowZero ==
    HasPadding(module) =>
        /\ ZeroRow(module.parameters.token, module.padding_idx)
        /\ (call.op = "forward" /\ ~module.training /\ result.exc = "none") =>
              \A b \in DOMAIN call.x.data : \A q \in DOMAIN call.x.data[b] :
                  call.x.data[b][q] = module.padding_idx =>
                      result.out.data[b][q] = pos_table(module.pos).data[q]

C12_Witness ==
    /\ HasPadding(module)
    /\ SecondForward
    /\ ~module.training
    /\ module.dropout = 50
    /\ result.exc = "none"
    /\ call.x.shape = <<2, 2>>
    /\ \E b \in 1..2 : call.x.data[b][2] = module.padding_idx
    /\ \E b \in 1..2 : call.x.data[b][2] # module.padding_idx
    /\ ~ZeroRow(module.parameters.token, 1)
    /\ ZeroRow(module.parameters.token, module.padding_idx)

(***************************************************************************)
(* C16: inside the block the positional module's own dropout probability   *)
(* is 0.0 whatever the block's dropout argument, so every forward applies  *)
(* dropout exactly once, after the token and positional signals have been  *)
(* summed: each output element is either dropped or the sum scaled once by *)
(* 1 / (1 - p).                                                            *)
(***************************************************************************)
\* token[ids[b, q], c] + pos[q, c]: the sum the block's dropout receives.
TokenPlusPos(m, ids, b, q, c) ==
    Add(m.parameters.token.data[ids.data[b][q] + 1][c],
        pos_table(m.pos).data[q][c])

C16_DropoutAppliedOnce ==
    IsBlock(module) =>
        /\ module.pos.dropout = 0
        /\ (call.op = "Block_init" /\ result.exc = "none") =>
              module.dropout = call.dropout
        /\ (call.op = "forward" /\ result.exc = "none") =>
              /\ result.steps = <<"check_len", "token", "pos", "dropout">>
              /\ \A b \in DOMAIN call.x.data : \A q \in DOMAIN call.x.data[b] :
                 \A c \in DOMAIN result.out.data[b][q] :
                    LET sum == TokenPlusPos(module, call.x, b, q, c)
                        y == result.out.data[b][q][c]
                    IN  IF DropoutDisabled(module) THEN y = sum
                        ELSE y = Num(0)
                               \/ y = Scale(100 \div (100 - module.dropout), sum)

C16_Witness ==
    /\ BlockForward
    /\ module.training
    /\ module.dropout = 50
    /\ result.exc = "none"
    /\ \E b \in DOMAIN call.x.data : \E q \in DOMAIN call.x.data[b] :
       \E c \in DOMAIN result.out.data[b][q] :
          /\ result.out.data[b][q][c] = Scale(2, TokenPlusPos(module, call.x, b, q, c))
          /\ result.out.data[b][q][c] # Num(0)
    /\ \E b \in DOMAIN call.x.data : \E q \in DOMAIN call.x.data[b] :
       \E c \in DOMAIN result.out.data[b][q] :
          /\ result.out.data[b][q][c] = Num(0)
          /\ TokenPlusPos(module, call.x, b, q, c) # Num(0)

(***************************************************************************)
(* C20: constructing the block with an odd d_model fails with              *)
(* InvalidDimension when pos_kind is "sinusoidal" and succeeds when it is  *)
(* "learned", because only the sinusoidal table needs sin/cos column       *)
(* pairs; with an unknown pos_kind it fails with UnknownStrategy, the tag  *)
(* being checked before any positional table is built.                     *)
(***************************************************************************)
\* The steps of a constructor call that build a sinusoidal table.
TableSteps(steps) ==
    {j \in DOMAIN steps : steps[j] \in {"check_even", "alloc", "fill"}}

C20_OddDModelByStrategy ==
    (call.op = "Block_init" /\ call.d_model % 2 = 1) =>
        /\ call.pos_kind = "sinusoidal" =>
              /\ InvalidDimension(result)
              /\ result.msg.args = <<call.d_model>>
              /\ module = NoModule
        /\ call.pos_kind = "learned" =>
              /\ result.exc = "none"
              /\ IsBlock(module)
              /\ IsLearned(module.pos)
              /\ module.pos.parameters.embedding.shape = <<call.max_len, call.d_model>>
              /\ module.parameters.token.shape = <<call.vocab_size, call.d_model>>
        /\ call.pos_kind \notin {"sinusoidal", "learned"} =>
              /\ UnknownStrategy(result)
              /\ TableSteps(result.steps) = {}
              /\ PosCtorSteps(result.steps) = {}
              /\ module = NoModule

C20_Witness ==
    /\ call.op = "Block_init"
    /\ call.d_model = 3
    /\ call.pos_kind = "learned"
    /\ result.exc = "none"
    /\ IsBlock(module)

\* The other two cases of C20 are reached as well.
C20_OddSinusoidalReached ==
    /\ call.op = "Block_init"
    /\ call.d_model = 3
    /\ call.pos_kind = "sinusoidal"
    /\ InvalidDimension(result)

C20_OddUnknownReached ==
    /\ call.op = "Block_init"
    /\ call.d_model = 3
    /\ call.pos_kind = "rotary"
    /\ UnknownStrategy(result)

(***************************************************************************)
(* C17: a forward of the block that fails with SequenceTooLong leaves      *)
(* max_len, the token table and the positional table as they were, and a   *)
(* later forward with seq_len <= max_len succeeds and returns what it      *)
(* would have returned had the failing call never been made (evaluation    *)
(* mode).                                                                  *)
(***************************************************************************)
\* max_len and the two tables of a block.
BlockTables(m) ==
    [max_len |-> m.max_len,
     token |-> m.parameters.token,
     pos |-> pos_table(m.pos)]

\* What block(x) returns in evaluation mode on a block no call has touched.
UntouchedEval(x) ==
    Block_forward(set_training(constructed, FALSE), x,
                  MaskOf("keep"), MaskOf("keep"))

C17_FailedForwardLeavesNoTrace ==
    (IsBlock(module) /\ failed) =>
        /\ BlockTables(module) = BlockTables(constructed)
        /\ (call.op = "forward" /\ ~module.training) =>
              /\ result = UntouchedEval(call.x)
              /\ (call.x.shape[2] <= constructed.max_len
                    /\ IdsInRange(call.x, constructed.parameters.token.shape[1]))
                  => result.exc = "none"

C17_Witness ==
    /\ IsBlock(module)
    /\ failed
    /\ call.op = "forward"
    /\ ~module.training
    /\ module.dropout = 50
    /\ call.x.shape[2] = module.max_len
    /\ module.max_len = MaxLen
    /\ result.exc = "none"
    /\ result = UntouchedEval(call.x)

(***************************************************************************)
(* C18: no sequence of forward calls changes a table.  The sinusoidal      *)
(* table stays equal to build_table(max_len, d_model) as computed at       *)
(* construction; the learned table and the token table are only read, the  *)
(* learned table only in rows 0..seq_len-1.  (Tables change only through   *)
(* an optimizer step, which is outside the program.)                       *)
(***************************************************************************)
\* Every table a module holds, parameters and buffers alike.
Tables(m) ==
    IF IsBlock(m)
    THEN [token |-> m.parameters.token, pos |-> pos_table(m.pos)]
    ELSE [pos |-> pos_table(m)]

\* The positional module of m: m itself, or the one inside the block.
PosOf(m) == IF IsBlock(m) THEN m.pos ELSE m

C18_ForwardReadsOnly ==
    module # NoModule =>
        /\ Tables(module) = Tables(constructed)
        /\ IsSinusoidal(PosOf(module)) =>
              LET pe == PosOf(module).buffers.pe
              IN  /\ pe = unsqueeze0(build_table(pe.shape[2], pe.shape[3], "None").out)
                  /\ call.op = "forward" => result.reads = {}
        /\ (IsLearned(PosOf(module)) /\ call.op = "forward") =>
              result.reads \subseteq 0..(call.x.shape[2] - 1)

C18_Witness ==
    /\ SecondForward
    /\ IsBlock(module)
    /\ IsLearned(module.pos)
    /\ module.training
    /\ module.dropout = 50
    /\ call.x.shape[2] = 1
    /\ module.max_len = 2
    /\ result.exc = "none"
    /\ result.reads = {0}
    /\ Tables(module) = Tables(constructed)

\* The sinusoidal case of C18 after two forward calls.
C18_SinusoidalReached ==
    /\ SecondForward
    /\ IsSinusoidal(module)
    /\ result.exc = "none"
    /\ module.buffers.pe.shape = <<1, 2, 4>>
    /\ module.buffers.pe = unsqueeze0(build_table(2, 4, "None").out)

(***************************************************************************)
(* C13: two calls of build_table with the same (seq_len, d_model, dtype)   *)
(* return identical tables (or fail alike), whatever seeding calls and     *)
(* draws from the global generators happen in between: the result is       *)
(* independent of the global RNG state.                                    *)
(***************************************************************************)
\* The pending call repeats the remembered build_table call.
SecondBuild ==
    /\ call.op = "build_table"
    /\ call.again
    /\ last.call.op = "build_table"
    /\ <<call.seq_len, call.d_model, call.dtype>>
         = <<last.call.seq_len, last.call.d_model, last.call.dtype>>

InvalidSeed(r) ==
    /\ r.exc = "ValueError"
    /\ r.msg.fmt = "seed must be a non-negative integer, got {}"

SeedCall == call.op \in {"set_seed", "SeedConfig.apply"}

C14_SeedValidation ==
    SeedCall =>
        LET bad == call.seed.type # "int" \/ call.seed.v < 0
        IN  /\ InvalidSeed(result) <=> bad
            /\ ~bad => result.exc = "none"
            /\ call.seed = IntSeed(0) => result.exc = "none"
            /\ bad =>
                  /\ result.msg.args = <<call.seed>>
                  /\ proc = call.before
                  /\ result.steps = IF call.op = "set_seed" THEN <<"validate">>
                                    ELSE <<"__post_init__">>

C14_Witness ==
    /\ call.op = "set_seed"
    /\ call.seed = IntSeed(-1)
    /\ InvalidSeed(result)
    /\ drawn.seed = 2
    /\ Len(drawn.random) = 1
    /\ proc = call.before
    /\ proc.environ.PYTHONHASHSEED = "2"

\* Further cases of C14 that are reached: a float seed given to SeedConfig,
\* and seed 0 accepted.
C14_FloatSeedReached ==
    /\ call.op = "SeedConfig.apply"
    /\ call.seed.type = "float"
    /\ InvalidSeed(result)

C14_ZeroSeedReached ==
    /\ call.op = "set_seed"
    /\ call.seed = IntSeed(0)
    /\ result.exc = "none"
    /\ proc.environ.PYTHONHASHSEED = "0"

(***************************************************************************)
(* C15: after set_seed(s), the values drawn from Python's and NumPy's      *)
(* global generators are a function of s alone, whatever draws and seeding *)
(* calls came before; SeedConfig(seed=s, deterministic=d).apply() has the  *)
(* effect of set_seed(s, deterministic=d).                                 *)
(***************************************************************************)
RECURSIVE random_stream(_, _)
\* The state of Python's generator n draws after random.seed(seed).
random_stream(seed, n) ==
    IF n = 0 THEN random_seed(seed) ELSE random_next(random_stream(seed, n - 1))

RECURSIVE np_random_stream(_, _)
\* The state of NumPy's generator n draws after np.random.seed(seed).
np_random_stream(seed, n) ==
    IF n = 0 THEN np_random_seed(seed)
    ELSE np_random_next(np_random_stream(seed, n - 1))

C15_DrawsDependOnSeedOnly ==
    /\ drawn.seed # NoSeed =>
          /\ \A i \in DOMAIN drawn.random :
                drawn.random[i] = random_stream(drawn.seed, i)
          /\ \A i \in DOMAIN drawn.numpy :
                drawn.numpy[i] = np_random_stream(drawn.seed, i)
          /\ proc.random = random_stream(drawn.seed, Len(drawn.random))
          /\ proc.numpy = np_random_stream(drawn.seed, Len(drawn.numpy))
    /\ call.op = "SeedConfig.apply" =>
          LET o == set_seed(call.seed, call.deterministic, platform, call.before)
          IN  /\ proc = o.proc
              /\ result.exc = o.result.exc
              /\ result.msg = o.result.msg
              /\ result.exc = "none" => result = o.result

C15_Witness ==
    /\ drawn.seed = 1
    /\ drawn.random = <<random_stream(1, 1), random_stream(1, 2)>>
    /\ drawn.numpy = <<np_random_stream(1, 1), np_random_stream(1, 2)>>
    /\ proc.environ.PYTHONHASHSEED = "1"
    /\ Idle

\* A reseeding with s = 1 of a process seeded with 2 and drawn from since.
C15_ReseedReached ==
    /\ call.op = "SeedConfig.apply"
    /\ call.seed = IntSeed(1)
    /\ ~call.deterministic
    /\ result.exc = "none"
    /\ call.before.environ.PYTHONHASHSEED = "2"
    /\ call.before.random # random_seed(2)
    /\ call.before.numpy # np_random_seed(2)
    /\ proc.random = random_seed(1)
    /\ proc.cudnn.deterministic = call.before.cudnn.deterministic

(***************************************************************************)
(* C19: set_seed(seed, deterministic=d) with a valid seed always sets      *)
(* PYTHONHASHSEED to str(seed) and, when torch is present, calls           *)
(* torch.manual_seed(seed) exactly once, and torch.cuda.manual_seed_all    *)
(* exactly when CUDA is available; it writes                               *)
(* CUBLAS_WORKSPACE_CONFIG = ':4096:8', sets cudnn.deterministic = True    *)
(* and cudnn.benchmark = False and calls use_deterministic_algorithms if   *)
(* and only if d is true; and it completes without raising when torch is   *)
(* absent, lacks warn_only, or lacks the API altogether.                   *)
(***************************************************************************)
\* How many times a library call occurs in the steps of a call.
Count(steps, step) == Cardinality({j \in DOMAIN steps : steps[j] = step})

\* Calls of torch.use_deterministic_algorithms, with either signature.
DeterministicCalls(steps) ==
    Count(steps, "use_deterministic_algorithms(True, warn_only=True)")
        + Count(steps, "use_deterministic_algorithms(True)")

C19_SetSeedEffects ==
    (call.op = "set_seed" /\ call.seed.type = "int" /\ call.seed.v >= 0) =>
        LET seed == call.seed.v
            d == call.deterministic
            before == call.before
            steps == result.steps
            one(b) == IF b THEN 1 ELSE 0
        IN  /\ result.exc = "none"
            /\ proc.environ.PYTHONHASHSEED = ToString(seed)
            /\ Count(steps, "environ[PYTHONHASHSEED]") = 1
            /\ Count(steps, "torch.manual_seed") = one(platform.torch)
            /\ platform.torch => proc.torch = seed
            /\ Count(steps, "torch.cuda.manual_seed_all")
                 = one(platform.torch /\ platform.cuda)
            /\ (platform.torch /\ platform.cuda) => proc.cuda = seed
            /\ Count(steps, "environ[CUBLAS_WORKSPACE_CONFIG]") = one(d)
            /\ proc.environ.CUBLAS_WORKSPACE_CONFIG
                 = IF d THEN ":4096:8" ELSE before.environ.CUBLAS_WORKSPACE_CONFIG
            /\ Count(steps, "cudnn.deterministic") = one(platform.torch /\ d)
            /\ Count(steps, "cudnn.benchmark") = one(platform.torch /\ d)
            /\ proc.cudnn = IF platform.torch /\ d
                            THEN [deterministic |-> TRUE, benchmark |-> FALSE]
                            ELSE before.cudnn
            /\ (platform.torch /\ platform.api # "none") =>
                  /\ DeterministicCalls(steps) > 0 <=> d
                  /\ d => proc.deterministic_algorithms # "off"
            /\ ~(platform.torch /\ platform.api # "none" /\ d) =>
                  /\ DeterministicCalls(steps) = 0
                  /\ proc.deterministic_algorithms = before.deterministic_algorithms
            /\ ~platform.torch =>
                  /\ proc.torch = before.torch
                  /\ proc.cuda = before.cuda

C19_Witness ==
    /\ call.op = "set_seed"
    /\ call.seed = IntSeed(1)
    /\ call.deterministic
    /\ platform = [torch |-> TRUE, cuda |-> TRUE, api |-> "no_warn_only"]
    /\ call.before.cudnn.benchmark
    /\ result.exc = "none"
    /\ proc.environ = [PYTHONHASHSEED |-> "1", CUBLAS_WORKSPACE_CONFIG |-> ":4096:8"]
    /\ proc.cuda = 1
    /\ proc.deterministic_algorithms = "on"
    /\ DeterministicCalls(result.steps) = 2

\* Further cases of C19 that are reached: no torch, and a torch without the
\* API, both with d true; and d false on a current torch.
C19_NoTorchReached ==
    /\ call.op = "set_seed"
    /\ call.deterministic
    /\ ~platform.torch
    /\ result.exc = "none"
    /\ proc.torch = Unset
    /\ proc.environ.CUBLAS_WORKSPACE_CONFIG = ":4096:8"

C19_NoApiReached ==
    /\ call.op = "set_seed"
    /\ call.deterministic
    /\ platform.torch
    /\ platform.api = "none"
    /\ result.exc = "none"
    /\ Count(result.steps, "logger.debug") = 1
    /\ proc.cudnn.deterministic

C19_NotDeterministicReached ==
    /\ call.op = "set_seed"
    /\ ~call.deterministic
    /\ platform.torch
    /\ platform.api = "warn_only"
    /\ result.exc = "none"
    /\ proc.environ.CUBLAS_WORKSPACE_CONFIG = Unset
    /\ call.before.cudnn.benchmark
    /\ proc.cudnn.benchmark

(***************************************************************************)
(* C21: deterministic mode is sticky.  A seeding call with                 *)
(* deterministic=False leaves CUBLAS_WORKSPACE_CONFIG, cudnn.deterministic,*)
(* cudnn.benchmark and the deterministic-algorithms setting as they were;  *)
(* so, the settings being off when the process starts, after any sequence  *)
(* of seeding calls they are on if and only if some completed call had     *)
(* deterministic=True (each setting where the platform has it).            *)
(***************************************************************************)
\* The four settings of deterministic mode in a process.
DeterministicSettings(p) ==
    [cublas |-> p.environ.CUBLAS_WORKSPACE_CONFIG,
     cudnn |-> p.cudnn,
     algorithms |-> p.deterministic_algorithms]

\* The settings of a process that never asked for deterministic mode.
SettingsOff(benchmark0) == DeterministicSettings(Process(0, 0, benchmark0))

\* The settings once deterministic mode was asked for, on the installed
\* platform: without torch only the environment variable is written, and
\* without the API the algorithms switch stays off.
SettingsOn(plat) ==
    [cublas |-> CUBLAS_DETERMINISTIC_CONFIG,
     cudnn |-> IF plat.torch
               THEN [deterministic |-> TRUE, benchmark |-> FALSE]
               ELSE SettingsOff(asked.benchmark0).cudnn,
     algorithms |-> IF plat.torch /\ plat.api # "none"
                    THEN IF plat.api = "warn_only" THEN "warn_only" ELSE "on"
                    ELSE "off"]

C21_DeterministicModeSticky ==
    /\ (SeedCall /\ ~call.deterministic) =>
          DeterministicSettings(proc) = DeterministicSettings(call.before)
    /\ DeterministicSettings(proc) =
          IF asked.deterministic THEN SettingsOn(platform)
          ELSE SettingsOff(asked.benchmark0)
    /\ asked.deterministic <=>
          proc.environ.CUBLAS_WORKSPACE_CONFIG = CUBLAS_DETERMINISTIC_CONFIG
    /\ platform.torch => (asked.deterministic <=> proc.cudnn.deterministic)
    /\ (platform.torch /\ asked.benchmark0) =>
          (asked.deterministic <=> ~proc.cudnn.benchmark)
    /\ (platform.torch /\ platform.api # "none") =>
          (asked.deterministic <=> proc.deterministic_algorithms # "off")

C21_Witness ==
    /\ call.op = "set_seed"
    /\ call.seed = IntSeed(2)
    /\ ~call.deterministic
    /\ result.exc = "none"
    /\ platform = [torch |-> TRUE, cuda |-> FALSE, api |-> "warn_only"]
    /\ asked = [benchmark0 |-> TRUE, deterministic |-> TRUE]
    /\ call.before.environ.PYTHONHASHSEED = "1"
    /\ proc.environ.PYTHONHASHSEED = "2"
    /\ DeterministicSettings(call.before) = SettingsOn(platform)
    /\ DeterministicSettings(proc) = SettingsOn(platform)

\* The other side of C21: only deterministic=False calls have completed, and
\* the settings are still off.
C21_NeverDeterministicReached ==
    /\ call.op = "set_seed"
    /\ ~call.deterministic
    /\ result.exc = "none"
    /\ call.before.environ.PYTHONHASHSEED = "1"
    /\ platform.torch
    /\ asked = [benchmark0 |-> TRUE, deterministic |-> FALSE]
    /\ DeterministicSettings(proc) = SettingsOff(TRUE)
    /\ proc.cudnn.benchmark

\* A rejected call with deterministic=True switches nothing on.
C21_RejectedCallReached ==
    /\ call.op = "set_seed"
    /\ call.deterministic
    /\ InvalidSeed(result)
    /\ ~asked.deterministic
    /\ DeterministicSettings(proc) = SettingsOff(asked.benchmark0)

====
